---- MODULE Spec2Model ----
(***************************************************************************)
(* ClientService of the VidGoNerf web server                               *)
(* (webserver/internal/services/ClientService.go).                         *)
(*                                                                         *)
(* Spec     : concurrent HandleIncomingVideo calls against the shared      *)
(*            filesystem, scene store, job queue and user store.           *)
(* MetaSpec : GetNerfMetadata calls (access guard, registry walk, chunk    *)
(*            arithmetic) against a filesystem the worker writes to.       *)
(***************************************************************************)
EXTENDS Integers, Sequences, FiniteSets, TLC

\* -------------------------------------------------------------------------
\* Bounds of the model
\* -------------------------------------------------------------------------
NSubmit == 2                      \* HandleIncomingVideo calls in flight
SubmitCalls == 1..NSubmit
Users == {"u1", "u2"}

\* File names an upload can report (a string is the tuple of its characters).
Mp4Name    == <<"a", ".", "m", "p", "4">>
BareExt    == <<".", "m", "p", "4">>
UpperName  == <<"a", ".", "M", "P", "4">>
NoDotName  == <<"m", "p", "4">>
TwoExtName == <<"a", ".", "m", "p", "4", ".", "t">>
EmptyName  == <<>>
FileNames == {Mp4Name, BareExt, UpperName, NoDotName, TwoExtName, EmptyName}

\* GetNerfMetadata: calls made one after the other, the scenes they ask for,
\* the output-type filters, and the sizes an artifact file can have.
MaxMetaCalls == 2
MaxChunks == 2
Scenes == {1, 2}
Filters == {"", "rgb", "depth"}

nil == "nil"
NoID == 0                         \* the "" returned beside an error

VARIABLES
  pc,            \* pc[p]: position of submit call p in HandleIncomingVideo
  req,           \* req[p]: userID and common.VideoUploadRequest of call p
  jobID,         \* jobID[p]: the local jobID
  userDoc,       \* userDoc[p]: the local user fetched by GetUserByID
  result,        \* result[p]: the pair the caller received
  log,           \* log[p]: the calls p made on its collaborators, in order
  objectCounter, \* primitive.NewObjectID's process-wide counter
  videosFolder,  \* TRUE once data/raw/videos exists
  videoFiles,    \* file path -> "empty" | "partial" | "full"
  sceneVideos,   \* scene store: job id -> Video
  sceneNames,    \* scene store: job id -> scene name
  sceneConfigs,  \* scene store: job id -> TrainingConfig
  queue,         \* messages published to the SFM queue, in order
  users,         \* user store: user id -> set of scene ids of the document
  nerfs,         \* scene store: job id -> Nerf (output type -> iteration -> path)
  artifacts,     \* filesystem: path of an artifact file -> its size in bytes
  mpc,           \* position of the current GetNerfMetadata call
  mreq,          \* its userID, sceneID and outputType
  lookup,        \* what UserHasJobAccess answered: (authorized, err)
  nerf,          \* the local nerf
  config,        \* the local config
  otIdx,         \* index of the outer range loop into config's OutputTypes
  pending,       \* iterations the inner range loop has still to visit
  resources,     \* metadata.Resources
  mresult,       \* the (interface{}, error) pair the caller received
  mlog,          \* the store and filesystem accesses of the call, in order
  callsMade,     \* GetNerfMetadata calls started so far
  prev,          \* request and result of the call the caller is repeating
  steady         \* no artifact file was written since the current call started

svars == <<pc, req, jobID, userDoc, result, log, objectCounter,
           videosFolder, videoFiles, sceneVideos, sceneNames, sceneConfigs,
           queue, users>>

mvars == <<nerfs, artifacts, mpc, mreq, lookup, nerf, config, otIdx, pending,
           resources, mresult, mlog, callsMade, prev, steady>>

vars == <<svars, mvars>>

\* -------------------------------------------------------------------------
\* Pure helpers
\* -------------------------------------------------------------------------
DotMp4 == <<".", "m", "p", "4">>

\* filepath.Ext: the suffix beginning at the final dot of the final path
\* element; empty when there is no dot.
RECURSIVE ExtFrom(_, _)
ExtFrom(path, i) ==
  IF i < 1 THEN <<>>
  ELSE IF path[i] = "/" THEN <<>>
  ELSE IF path[i] = "." THEN SubSeq(path, i, Len(path))
  ELSE ExtFrom(path, i - 1)

Ext(path) == ExtFrom(path, Len(path))

\* Validation without the extension test (a dropped check).
ValidateNoExtCheck(statErr, fileName) ==
  IF statErr THEN "ErrStat"
  ELSE IF fileName = <<>> THEN "ErrFileNotReceived"
  ELSE nil

\* Lines 146-159: the error of the validation block, nil when it passes.
Validate(statErr, fileName) ==
  IF statErr THEN "ErrStat"
  ELSE IF fileName = <<>> THEN "ErrFileNotReceived"
  ELSE IF Ext(fileName) # DotMp4 THEN "ErrImproperExtension"
  ELSE nil

\* An allocator that hands out the same identifier again.
StaleObjectID(counter) == 1

\* primitive.NewObjectID(): a fresh identifier per call (job ids are 1, 2, ..).
NewObjectID(counter) == counter + 1

\* videoName := jobID + ".mp4"; filepath.Join(videosFolder, videoName)
VideoFilePath(id) == <<"data/raw/videos", id, ".mp4">>
Stem(path) == path[2]

\* scene.Video{FilePath: videoFilePath}
Video(id) == [FilePath |-> VideoFilePath(id)]

\* scene.TrainingConfig built from the request
TrainingConfig(r) == [OutputTypes |-> r.outputTypes]

\* Store operations of the scene manager, the queue and the user manager.
SetVideo(store, id, video)        == (id :> video) @@ store
SetSceneName(store, id, name)     == (id :> name) @@ store
SetTrainingConfig(store, id, cfg) == (id :> cfg) @@ store
PublishSfmJob(q, id, video, cfg)  == Append(q, [id |-> id, video |-> video, config |-> cfg])
GetUserByID(store, u)             == store[u]
AddScene(doc, id)                 == doc \cup {id}
UpdateUser(store, u, doc)         == [store EXCEPT ![u] = doc]

\* -------------------------------------------------------------------------
\* HandleIncomingVideo, one action per step
\* -------------------------------------------------------------------------
\* The uploads a call can receive. Every user sends every file name and an
\* upload whose Stat fails; the output types requested are the user's own
\* (two different lists, so that a stored TrainingConfig tells its request).
OutputTypesOf(u) == IF u = "u1" THEN <<"rgb">> ELSE <<"rgb", "depth">>
ValidNameOf(u)   == IF u = "u1" THEN Mp4Name ELSE BareExt

Requests ==
  {[user |-> u, statErr |-> FALSE, name |-> n, sceneName |-> "scene",
    outputTypes |-> OutputTypesOf(u)] :
      u \in Users, n \in FileNames \ {Mp4Name, BareExt}}
  \cup {[user |-> u, statErr |-> FALSE, name |-> ValidNameOf(u), sceneName |-> "scene",
         outputTypes |-> OutputTypesOf(u)] : u \in Users}
  \cup {[user |-> u, statErr |-> TRUE, name |-> EmptyName, sceneName |-> "scene",
         outputTypes |-> OutputTypesOf(u)] : u \in Users}

NoRequest == [user |-> "none", statErr |-> FALSE, name |-> EmptyName,
              sceneName |-> "none", outputTypes |-> <<>>]
NoReturn == [id |-> NoID, err |-> "none"]

Attempt(p, op, id, ok) ==
  log' = [log EXCEPT ![p] = Append(@, [op |-> op, id |-> id, ok |-> ok])]

\* return "", err: the call ends and its caller holds the error.
Fail(p, e) ==
  /\ result' = [result EXCEPT ![p] = [id |-> NoID, err |-> e]]
  /\ pc' = [pc EXCEPT ![p] = "done"]

Goto(p, next) ==
  /\ pc' = [pc EXCEPT ![p] = next]
  /\ UNCHANGED result

\* Lines 144-159: the call starts and validates the upload.
CallValidate(p) ==
  /\ pc[p] = "idle"
  /\ \E r \in Requests :
       /\ req' = [req EXCEPT ![p] = r]
       /\ LET e == Validate(r.statErr, r.name) IN
            /\ Attempt(p, "Validate", NoID, e = nil)
            /\ IF e = nil THEN Goto(p, "allocate") ELSE Fail(p, e)
  /\ UNCHANGED <<jobID, userDoc, objectCounter, videosFolder, videoFiles,
                 sceneVideos, sceneNames, sceneConfigs, queue, users>>
  /\ UNCHANGED mvars

\* Line 161
CallNewObjectID(p) ==
  /\ pc[p] = "allocate"
  /\ jobID' = [jobID EXCEPT ![p] = NewObjectID(objectCounter)]
  /\ objectCounter' = objectCounter + 1
  /\ Attempt(p, "NewObjectID", jobID'[p], TRUE)
  /\ Goto(p, "mkdir")
  /\ UNCHANGED <<req, userDoc, videosFolder, videoFiles,
                 sceneVideos, sceneNames, sceneConfigs, queue, users>>
  /\ UNCHANGED mvars

\* Lines 164-168
CallMkdirAll(p) ==
  /\ pc[p] = "mkdir"
  /\ \E ok \in BOOLEAN :
       /\ Attempt(p, "MkdirAll", NoID, ok)
       /\ IF ok THEN /\ videosFolder' = TRUE
                     /\ Goto(p, "create")
               ELSE /\ Fail(p, "ErrMkdirAll")
                    /\ UNCHANGED videosFolder
  /\ UNCHANGED <<req, jobID, userDoc, objectCounter, videoFiles,
                 sceneVideos, sceneNames, sceneConfigs, queue, users>>
  /\ UNCHANGED mvars

\* Lines 169-181: os.Create makes (or truncates) the destination file, then
\* the upload is opened for reading; Open touches nothing shared.
CallCreate(p) ==
  /\ pc[p] = "create"
  /\ \E created \in BOOLEAN, opened \in BOOLEAN :
       LET path == VideoFilePath(jobID[p])
           c == [op |-> "Create", id |-> Stem(path), ok |-> created]
           o == [op |-> "Open", id |-> NoID, ok |-> opened]
       IN  IF ~created
           THEN /\ opened
                /\ log' = [log EXCEPT ![p] = Append(@, c)]
                /\ Fail(p, "ErrCreate")
                /\ UNCHANGED videoFiles
           ELSE /\ log' = [log EXCEPT ![p] = Append(Append(@, c), o)]
                /\ videoFiles' = (path :> "empty") @@ videoFiles
                /\ IF opened THEN Goto(p, "copy") ELSE Fail(p, "ErrOpen")
  /\ UNCHANGED <<req, jobID, userDoc, objectCounter, videosFolder,
                 sceneVideos, sceneNames, sceneConfigs, queue, users>>
  /\ UNCHANGED mvars

\* Lines 183-185: io.Copy drains the source into the created file.
CallCopy(p) ==
  /\ pc[p] = "copy"
  /\ \E ok \in BOOLEAN :
       /\ Attempt(p, "Copy", Stem(VideoFilePath(jobID[p])), ok)
       /\ IF ok THEN /\ videoFiles' = (VideoFilePath(jobID[p]) :> "full") @@ videoFiles
                     /\ Goto(p, "setvideo")
               ELSE /\ videoFiles' = (VideoFilePath(jobID[p]) :> "partial") @@ videoFiles
                    /\ Fail(p, "ErrCopy")
  /\ UNCHANGED <<req, jobID, userDoc, objectCounter, videosFolder,
                 sceneVideos, sceneNames, sceneConfigs, queue, users>>
  /\ UNCHANGED mvars

\* Lines 188, 199-201
CallSetVideo(p) ==
  /\ pc[p] = "setvideo"
  /\ \E ok \in BOOLEAN :
       /\ Attempt(p, "SetVideo", jobID[p], ok)
       /\ IF ok THEN /\ sceneVideos' = SetVideo(sceneVideos, jobID[p], Video(jobID[p]))
                     /\ Goto(p, "setscenename")
               ELSE /\ Fail(p, "ErrSetVideo")
                    /\ UNCHANGED sceneVideos
  /\ UNCHANGED <<req, jobID, userDoc, objectCounter, videosFolder, videoFiles,
                 sceneNames, sceneConfigs, queue, users>>
  /\ UNCHANGED mvars

\* A SetSceneName step that carries on after a failed write.
CallSetSceneNameIgnoringError(p) ==
  /\ pc[p] = "setscenename"
  /\ \E ok \in BOOLEAN :
       /\ Attempt(p, "SetSceneName", jobID[p], ok)
       /\ IF ok THEN sceneNames' = SetSceneName(sceneNames, jobID[p], req[p].sceneName)
               ELSE UNCHANGED sceneNames
       /\ Goto(p, "settrainingconfig")
  /\ UNCHANGED <<req, jobID, userDoc, objectCounter, videosFolder, videoFiles,
                 sceneVideos, sceneConfigs, queue, users>>
  /\ UNCHANGED mvars

\* Lines 203-205
CallSetSceneName(p) ==
  /\ pc[p] = "setscenename"
  /\ \E ok \in BOOLEAN :
       /\ Attempt(p, "SetSceneName", jobID[p], ok)
       /\ IF ok THEN /\ sceneNames' = SetSceneName(sceneNames, jobID[p], req[p].sceneName)
                     /\ Goto(p, "settrainingconfig")
               ELSE /\ Fail(p, "ErrSetSceneName")
                    /\ UNCHANGED sceneNames
  /\ UNCHANGED <<req, jobID, userDoc, objectCounter, videosFolder, videoFiles,
                 sceneVideos, sceneConfigs, queue, users>>
  /\ UNCHANGED mvars

\* A SetTrainingConfig step that carries on after a failed write.
CallSetTrainingConfigIgnoringError(p) ==
  /\ pc[p] = "settrainingconfig"
  /\ \E ok \in BOOLEAN :
       /\ Attempt(p, "SetTrainingConfig", jobID[p], ok)
       /\ IF ok THEN sceneConfigs' = SetTrainingConfig(sceneConfigs, jobID[p],
                                                       TrainingConfig(req[p]))
               ELSE UNCHANGED sceneConfigs
       /\ Goto(p, "publish")
  /\ UNCHANGED <<req, jobID, userDoc, objectCounter, videosFolder, videoFiles,
                 sceneVideos, sceneNames, queue, users>>
  /\ UNCHANGED mvars

\* Lines 189-196, 207-209
CallSetTrainingConfig(p) ==
  /\ pc[p] = "settrainingconfig"
  /\ \E ok \in BOOLEAN :
       /\ Attempt(p, "SetTrainingConfig", jobID[p], ok)
       /\ IF ok THEN /\ sceneConfigs' = SetTrainingConfig(sceneConfigs, jobID[p],
                                                          TrainingConfig(req[p]))
                     /\ Goto(p, "publish")
               ELSE /\ Fail(p, "ErrSetTrainingConfig")
                    /\ UNCHANGED sceneConfigs
  /\ UNCHANGED <<req, jobID, userDoc, objectCounter, videosFolder, videoFiles,
                 sceneVideos, sceneNames, queue, users>>
  /\ UNCHANGED mvars

\* A publish step that compensates: on failure it removes the video file
\* and the scene's records before returning the error.
CallPublishSfmJobWithRollback(p) ==
  /\ pc[p] = "publish"
  /\ \E ok \in BOOLEAN :
       /\ Attempt(p, "PublishSfmJob", jobID[p], ok)
       /\ IF ok THEN /\ queue' = PublishSfmJob(queue, jobID[p], Video(jobID[p]),
                                               TrainingConfig(req[p]))
                     /\ Goto(p, "getuser")
                     /\ UNCHANGED <<videoFiles, sceneVideos, sceneNames, sceneConfigs>>
               ELSE /\ Fail(p, "ErrPublish")
                    /\ videoFiles' = [f \in DOMAIN videoFiles \ {VideoFilePath(jobID[p])}
                                        |-> videoFiles[f]]
                    /\ sceneVideos' = [j \in DOMAIN sceneVideos \ {jobID[p]} |-> sceneVideos[j]]
                    /\ sceneNames' = [j \in DOMAIN sceneNames \ {jobID[p]} |-> sceneNames[j]]
                    /\ sceneConfigs' = [j \in DOMAIN sceneConfigs \ {jobID[p]}
                                          |-> sceneConfigs[j]]
                    /\ UNCHANGED queue
  /\ UNCHANGED <<req, jobID, userDoc, objectCounter, videosFolder, users>>
  /\ UNCHANGED mvars

\* A publish step that carries on after a failed publish.
CallPublishSfmJobIgnoringError(p) ==
  /\ pc[p] = "publish"
  /\ \E ok \in BOOLEAN :
       /\ Attempt(p, "PublishSfmJob", jobID[p], ok)
       /\ IF ok THEN queue' = PublishSfmJob(queue, jobID[p], Video(jobID[p]),
                                            TrainingConfig(req[p]))
               ELSE UNCHANGED queue
       /\ Goto(p, "getuser")
  /\ UNCHANGED <<req, jobID, userDoc, objectCounter, videosFolder, videoFiles,
                 sceneVideos, sceneNames, sceneConfigs, users>>
  /\ UNCHANGED mvars

\* Lines 211-214
CallPublishSfmJob(p) ==
  /\ pc[p] = "publish"
  /\ \E ok \in BOOLEAN :
       /\ Attempt(p, "PublishSfmJob", jobID[p], ok)
       /\ IF ok THEN /\ queue' = PublishSfmJob(queue, jobID[p], Video(jobID[p]),
                                               TrainingConfig(req[p]))
                     /\ Goto(p, "getuser")
               ELSE /\ Fail(p, "ErrPublish")
                    /\ UNCHANGED queue
  /\ UNCHANGED <<req, jobID, userDoc, objectCounter, videosFolder, videoFiles,
                 sceneVideos, sceneNames, sceneConfigs, users>>
  /\ UNCHANGED mvars

\* Lines 216-219
CallGetUserByID(p) ==
  /\ pc[p] = "getuser"
  /\ \E ok \in BOOLEAN :
       /\ Attempt(p, "GetUserByID", NoID, ok)
       /\ IF ok THEN /\ userDoc' = [userDoc EXCEPT ![p] = GetUserByID(users, req[p].user)]
                     /\ Goto(p, "updateuser")
               ELSE /\ Fail(p, "ErrGetUserByID")
                    /\ UNCHANGED userDoc
  /\ UNCHANGED <<req, jobID, objectCounter, videosFolder, videoFiles,
                 sceneVideos, sceneNames, sceneConfigs, queue, users>>
  /\ UNCHANGED mvars

\* An ownership step that adds the scene to the stored set instead of
\* writing the local document over it.
CallUpdateUserMerging(p) ==
  /\ pc[p] = "updateuser"
  /\ \E ok \in BOOLEAN :
       /\ Attempt(p, "UpdateUser", jobID[p], ok)
       /\ userDoc' = [userDoc EXCEPT ![p] = AddScene(@, jobID[p])]
       /\ IF ok THEN /\ users' = [users EXCEPT ![req[p].user] = @ \cup {jobID[p]}]
                     /\ Goto(p, "return")
               ELSE /\ Fail(p, "ErrUpdateUser")
                    /\ UNCHANGED users
  /\ UNCHANGED <<req, jobID, objectCounter, videosFolder, videoFiles,
                 sceneVideos, sceneNames, sceneConfigs, queue>>
  /\ UNCHANGED mvars

\* An ownership step that returns the job id although UpdateUser failed.
CallUpdateUserSwallowingError(p) ==
  /\ pc[p] = "updateuser"
  /\ \E ok \in BOOLEAN :
       /\ Attempt(p, "UpdateUser", jobID[p], ok)
       /\ userDoc' = [userDoc EXCEPT ![p] = AddScene(@, jobID[p])]
       /\ IF ok THEN users' = UpdateUser(users, req[p].user, userDoc'[p])
               ELSE UNCHANGED users
       /\ Goto(p, "return")
  /\ UNCHANGED <<req, jobID, objectCounter, videosFolder, videoFiles,
                 sceneVideos, sceneNames, sceneConfigs, queue>>
  /\ UNCHANGED mvars

\* Lines 221-224: AddScene on the local document, then UpdateUser.
CallUpdateUser(p) ==
  /\ pc[p] = "updateuser"
  /\ \E ok \in BOOLEAN :
       /\ Attempt(p, "UpdateUser", jobID[p], ok)
       /\ userDoc' = [userDoc EXCEPT ![p] = AddScene(@, jobID[p])]
       /\ IF ok THEN /\ users' = UpdateUser(users, req[p].user, userDoc'[p])
                     /\ Goto(p, "return")
               ELSE /\ Fail(p, "ErrUpdateUser")
                    /\ UNCHANGED users
  /\ UNCHANGED <<req, jobID, objectCounter, videosFolder, videoFiles,
                 sceneVideos, sceneNames, sceneConfigs, queue>>
  /\ UNCHANGED mvars

\* Line 226: return jobID, nil; the caller now holds the job identifier.
Return(p) ==
  /\ pc[p] = "return"
  /\ result' = [result EXCEPT ![p] = [id |-> jobID[p], err |-> nil]]
  /\ pc' = [pc EXCEPT ![p] = "done"]
  /\ UNCHANGED <<req, jobID, userDoc, log, objectCounter, videosFolder, videoFiles,
                 sceneVideos, sceneNames, sceneConfigs, queue, users>>
  /\ UNCHANGED mvars

SubmitInit ==
  /\ pc = [p \in SubmitCalls |-> "idle"]
  /\ req = [p \in SubmitCalls |-> NoRequest]
  /\ jobID = [p \in SubmitCalls |-> NoID]
  /\ userDoc = [p \in SubmitCalls |-> {}]
  /\ result = [p \in SubmitCalls |-> NoReturn]
  /\ log = [p \in SubmitCalls |-> <<>>]
  /\ objectCounter = 0
  /\ videosFolder = FALSE
  /\ videoFiles = <<>>
  /\ sceneVideos = <<>>
  /\ sceneNames = <<>>
  /\ sceneConfigs = <<>>
  /\ queue = <<>>
  /\ users = [u \in Users |-> {}]

SubmitStep ==
  \E p \in SubmitCalls :
    \/ CallValidate(p)
    \/ CallNewObjectID(p)
    \/ CallMkdirAll(p)
    \/ CallCreate(p)
    \/ CallCopy(p)
    \/ CallSetVideo(p)
    \/ CallSetSceneName(p)
    \/ CallSetTrainingConfig(p)
    \/ CallPublishSfmJob(p)
    \/ CallGetUserByID(p)
    \/ CallUpdateUser(p)
    \/ Return(p)

\* -------------------------------------------------------------------------
\* GetNerfMetadata
\* -------------------------------------------------------------------------
ChunkSize == 1048576              \* 1024 * 1024

\* File sizes: 0, every multiple of the chunk size up to MaxChunks chunks,
\* each multiple plus 451,424 (1,500,000 = ChunkSize + 451,424), and one byte
\* more than one chunk.
Sizes ==
  {0, ChunkSize + 1}
    \cup {n \in {k * ChunkSize + r : k \in 0..MaxChunks, r \in {0, 451424}} :
              n <= MaxChunks * ChunkSize}

StatError == -1                   \* os.Stat returned an error
NoPath == <<>>

\* Store operations of the user manager and the scene manager.
UserHasJobAccess(store, u, j)   == j \in store[u]
GetNerf(store, j)               == store[j]
GetTrainingConfig(store, j)     == store[j]
GetFilePathsForOutputType(n, ot) == IF ot \in DOMAIN n THEN n[ot] ELSE <<>>

\* A guard that lets a failed lookup through.
VerifyUserAccessFailOpen(l) ==
  IF l.err # nil THEN nil
  ELSE IF ~l.authorized THEN "ErrUserNoAccess"
  ELSE nil

\* A guard that forgets the "not authorized" answer.
VerifyUserAccessNoDenial(l) ==
  IF l.err # nil THEN l.err
  ELSE nil

\* A guard that answers ErrUserNoAccess for a failed lookup too.
VerifyUserAccessUniform(l) ==
  IF l.err # nil THEN "ErrUserNoAccess"
  ELSE IF ~l.authorized THEN "ErrUserNoAccess"
  ELSE nil

\* Lines 36-45, applied to the (authorized, err) pair of UserHasJobAccess.
verifyUserAccess(l) ==
  IF l.err # nil THEN l.err
  ELSE IF ~l.authorized THEN "ErrUserNoAccess"
  ELSE nil

\* Chunk count by rounding down.
ChunksRoundedDown(fileSize) == fileSize \div ChunkSize

\* Chunk count that gives an empty file one chunk.
ChunksAtLeastOne(fileSize) ==
  IF fileSize = 0 THEN 1 ELSE (fileSize + ChunkSize - 1) \div ChunkSize

\* Line 122
Chunks(fileSize) == (fileSize + ChunkSize - 1) \div ChunkSize

\* Last chunk size as the bare remainder.
LastChunkSizeRemainder(fileSize) == fileSize % ChunkSize

\* Lines 123-126
LastChunkSize(fileSize) ==
  IF fileSize % ChunkSize = 0 THEN ChunkSize ELSE fileSize % ChunkSize

\* A probe that takes a failed Stat for a file of size 0.
ResourceInfoIgnoringStatError(stat) ==
  LET fileSize == IF stat = StatError THEN 0 ELSE stat IN
    [Exists |-> TRUE, Size |-> fileSize, Chunks |-> Chunks(fileSize),
     LastChunkSize |-> LastChunkSize(fileSize)]

\* Lines 117-134: the ResourceInfo for what os.Stat returned.
ResourceInfo(stat) ==
  IF stat = StatError
  THEN [Exists |-> FALSE, Size |-> 0, Chunks |-> 0, LastChunkSize |-> 0]
  ELSE [Exists |-> TRUE, Size |-> stat, Chunks |-> Chunks(stat),
        LastChunkSize |-> LastChunkSize(stat)]

NoMetaRequest == [user |-> "none", scene |-> NoID, outputType |-> ""]
NoLookup == [authorized |-> FALSE, err |-> "none"]
NoMeta == [Resources |-> <<>>, isNil |-> TRUE]
NoMetaResult == [meta |-> NoMeta, err |-> "none"]
NoConfig == [OutputTypes |-> <<>>]

Access(op, path, seen) == [op |-> op, path |-> path, seen |-> seen]

\* No os.Stat of the current call failed on a file that exists.
Clean ==
  \A i \in 1..Len(mlog) :
    (mlog[i].op = "Stat" /\ mlog[i].path \in DOMAIN artifacts) => mlog[i].seen # StatError

NoPrev == [req |-> NoMetaRequest, result |-> NoMetaResult, clean |-> FALSE]

MetaFail(e) ==
  /\ mresult' = [meta |-> NoMeta, err |-> e]
  /\ mpc' = "done"

\* Lines 91-94: the call starts with the access guard.
CallVerifyUserAccess ==
  /\ mpc = "idle"
  /\ callsMade < MaxMetaCalls
  /\ callsMade' = callsMade + 1
  /\ \E u \in Users, j \in Scenes, f \in Filters, lookupOk \in BOOLEAN :
       /\ mreq' = [user |-> u, scene |-> j, outputType |-> f]
       /\ prev # NoPrev => mreq' = prev.req
       /\ lookup' = IF lookupOk
                    THEN [authorized |-> UserHasJobAccess(users, u, j), err |-> nil]
                    ELSE [authorized |-> FALSE, err |-> "ErrLookup"]
       /\ mlog' = <<Access("UserHasJobAccess", NoPath, StatError)>>
       /\ LET e == verifyUserAccess(lookup') IN
            IF e # nil THEN MetaFail(e)
            ELSE mpc' = "getnerf" /\ UNCHANGED mresult
  /\ steady' = TRUE
  /\ UNCHANGED <<prev, nerfs, artifacts, nerf, config, otIdx, pending, resources>>
  /\ UNCHANGED svars

\* Lines 96-99
CallGetNerf ==
  /\ mpc = "getnerf"
  /\ mlog' = Append(mlog, Access("GetNerf", NoPath, StatError))
  /\ \E ok \in BOOLEAN :
       IF ok THEN /\ nerf' = GetNerf(nerfs, mreq.scene)
                  /\ mpc' = "getconfig"
                  /\ UNCHANGED mresult
             ELSE /\ MetaFail("ErrGetNerf")
                  /\ UNCHANGED nerf
  /\ UNCHANGED <<prev, steady, nerfs, artifacts, mreq, lookup, config, otIdx, pending, resources,
                 callsMade>>
  /\ UNCHANGED svars

\* Lines 101-108
CallGetTrainingConfig ==
  /\ mpc = "getconfig"
  /\ mlog' = Append(mlog, Access("GetTrainingConfig", NoPath, StatError))
  /\ \E ok \in BOOLEAN :
       IF ok THEN /\ config' = GetTrainingConfig(sceneConfigs, mreq.scene)
                  /\ resources' = <<>>
                  /\ otIdx' = 1
                  /\ mpc' = "range"
                  /\ UNCHANGED mresult
             ELSE /\ MetaFail("ErrGetTrainingConfig")
                  /\ UNCHANGED <<config, resources, otIdx>>
  /\ UNCHANGED <<prev, steady, nerfs, artifacts, mreq, lookup, nerf, pending, callsMade>>
  /\ UNCHANGED svars

\* An outer loop that lets every declared output type through.
RangeOutputTypesIgnoringFilter ==
  /\ mpc = "range"
  /\ IF otIdx > Len(config.OutputTypes)
     THEN /\ mresult' = [meta |-> [Resources |-> resources, isNil |-> FALSE], err |-> nil]
          /\ mpc' = "done"
          /\ UNCHANGED <<resources, pending, otIdx>>
     ELSE LET ot == config.OutputTypes[otIdx]
              filePaths == GetFilePathsForOutputType(nerf, ot)
          IN  /\ resources' = (ot :> <<>>) @@ resources
              /\ pending' = DOMAIN filePaths
              /\ IF DOMAIN filePaths = {}
                 THEN otIdx' = otIdx + 1 /\ mpc' = "range"
                 ELSE otIdx' = otIdx /\ mpc' = "stat"
              /\ UNCHANGED mresult
  /\ UNCHANGED <<prev, steady, nerfs, artifacts, mreq, lookup, nerf, config, mlog, callsMade>>
  /\ UNCHANGED svars

\* Lines 110-114 and 141: the head of the outer loop. Past the last output
\* type the metadata is returned; a type the filter lets through gets a fresh
\* map and its file paths are ranged over; any other type is skipped.
RangeOutputTypes ==
  /\ mpc = "range"
  /\ IF otIdx > Len(config.OutputTypes)
     THEN /\ mresult' = [meta |-> [Resources |-> resources, isNil |-> FALSE], err |-> nil]
          /\ mpc' = "done"
          /\ UNCHANGED <<resources, pending, otIdx>>
     ELSE LET ot == config.OutputTypes[otIdx]
              filePaths == GetFilePathsForOutputType(nerf, ot)
          IN  IF mreq.outputType = "" \/ mreq.outputType = ot
              THEN /\ resources' = (ot :> <<>>) @@ resources
                   /\ pending' = DOMAIN filePaths
                   /\ IF DOMAIN filePaths = {}
                      THEN otIdx' = otIdx + 1 /\ mpc' = "range"
                      ELSE otIdx' = otIdx /\ mpc' = "stat"
                   /\ UNCHANGED mresult
              ELSE /\ otIdx' = otIdx + 1
                   /\ UNCHANGED <<resources, pending, mpc, mresult>>
  /\ UNCHANGED <<prev, steady, nerfs, artifacts, mreq, lookup, nerf, config, mlog, callsMade>>
  /\ UNCHANGED svars

\* An inner loop whose info is declared outside it: a file that is not
\* found reports what the previous pass of the loop left in info.
CallStatStaleInfo ==
  /\ mpc = "stat"
  /\ \E iteration \in pending, readable \in BOOLEAN :
       LET ot == config.OutputTypes[otIdx]
           path == GetFilePathsForOutputType(nerf, ot)[iteration]
           stat == IF path \in DOMAIN artifacts /\ readable
                   THEN artifacts[path] ELSE StatError
           last == mlog[Len(mlog)]
           info == IF stat = StatError /\ last.op = "Stat"
                   THEN ResourceInfo(last.seen) ELSE ResourceInfo(stat)
       IN  /\ mlog' = Append(mlog, Access("Stat", path, stat))
           /\ resources' = [resources EXCEPT ![ot] = (iteration :> info) @@ @]
           /\ pending' = pending \ {iteration}
           /\ IF pending' = {}
              THEN otIdx' = otIdx + 1 /\ mpc' = "range"
              ELSE UNCHANGED <<otIdx, mpc>>
  /\ UNCHANGED <<prev, steady, nerfs, artifacts, mreq, lookup, nerf, config, mresult,
                 callsMade>>
  /\ UNCHANGED svars

\* Lines 116-137: one pass of the inner loop, in any order of the map's keys.
CallStat ==
  /\ mpc = "stat"
  /\ \E iteration \in pending, readable \in BOOLEAN :
       LET ot == config.OutputTypes[otIdx]
           path == GetFilePathsForOutputType(nerf, ot)[iteration]
           stat == IF path \in DOMAIN artifacts /\ readable
                   THEN artifacts[path] ELSE StatError
       IN  /\ mlog' = Append(mlog, Access("Stat", path, stat))
           /\ resources' = [resources EXCEPT
                              ![ot] = (iteration :> ResourceInfo(stat)) @@ @]
           /\ pending' = pending \ {iteration}
           /\ IF pending' = {}
              THEN otIdx' = otIdx + 1 /\ mpc' = "range"
              ELSE UNCHANGED <<otIdx, mpc>>
  /\ UNCHANGED <<prev, steady, nerfs, artifacts, mreq, lookup, nerf, config, mresult, callsMade>>
  /\ UNCHANGED svars

\* The caller makes its next call.
NextCall ==
  /\ mpc = "done"
  /\ callsMade < MaxMetaCalls
  /\ mpc' = "idle"
  /\ mreq' = NoMetaRequest
  /\ lookup' = NoLookup
  /\ nerf' = <<>>
  /\ config' = NoConfig
  /\ otIdx' = 0
  /\ pending' = {}
  /\ resources' = <<>>
  /\ mresult' = NoMetaResult
  /\ mlog' = <<>>
  /\ prev' = NoPrev
  /\ steady' = TRUE
  /\ UNCHANGED <<nerfs, artifacts, callsMade>>
  /\ UNCHANGED svars

\* The caller makes the same call again, keeping what the last one returned;
\* it does so only while no artifact file was written since that call began.
RepeatCall ==
  /\ mpc = "done"
  /\ callsMade < MaxMetaCalls
  /\ steady
  /\ prev' = [req |-> mreq, result |-> mresult, clean |-> Clean]
  /\ mpc' = "idle"
  /\ mreq' = NoMetaRequest
  /\ lookup' = NoLookup
  /\ nerf' = <<>>
  /\ config' = NoConfig
  /\ otIdx' = 0
  /\ pending' = {}
  /\ resources' = <<>>
  /\ mresult' = NoMetaResult
  /\ mlog' = <<>>
  /\ UNCHANGED <<nerfs, artifacts, callsMade, steady>>
  /\ UNCHANGED svars

\* The training worker writes one more registered artifact file.
RegisteredPaths ==
  UNION {UNION {{nerfs[j][ot][it] : it \in DOMAIN nerfs[j][ot]} :
                  ot \in DOMAIN nerfs[j]} : j \in DOMAIN nerfs}

WorkerWrite ==
  /\ \E path \in RegisteredPaths \ DOMAIN artifacts, size \in Sizes :
       artifacts' = (path :> size) @@ artifacts
  /\ prev' = NoPrev
  /\ steady' = (mpc = "idle")
  /\ UNCHANGED <<nerfs, mpc, mreq, lookup, nerf, config, otIdx, pending, resources,
                 mresult, mlog, callsMade>>
  /\ UNCHANGED svars

MetaIdle ==
  /\ nerfs = <<>>
  /\ artifacts = <<>>
  /\ mpc = "idle"
  /\ mreq = NoMetaRequest
  /\ lookup = NoLookup
  /\ nerf = <<>>
  /\ config = NoConfig
  /\ otIdx = 0
  /\ pending = {}
  /\ resources = <<>>
  /\ mresult = NoMetaResult
  /\ mlog = <<>>
  /\ callsMade = 0
  /\ prev = NoPrev
  /\ steady = TRUE


\* -------------------------------------------------------------------------
\* MetaSpec starts where two submissions have completed: u1 owns scene 1
\* (output types rgb), u2 owns scene 2 (rgb, depth), and the worker has
\* registered the artifact paths it is going to write.
\* -------------------------------------------------------------------------
Pipeline == <<"Validate", "NewObjectID", "MkdirAll", "Create", "Open", "Copy",
              "SetVideo", "SetSceneName", "SetTrainingConfig", "PublishSfmJob",
              "GetUserByID", "UpdateUser">>

KeyedOps == {"NewObjectID", "Create", "Copy", "SetVideo", "SetSceneName",
             "SetTrainingConfig", "PublishSfmJob", "UpdateUser"}

UploadOf(u) == [user |-> u, statErr |-> FALSE, name |-> ValidNameOf(u),
                sceneName |-> "scene", outputTypes |-> OutputTypesOf(u)]
OwnerOf(j) == IF j = 1 THEN "u1" ELSE "u2"

CompleteLog(id) ==
  [i \in 1..Len(Pipeline) |->
     [op |-> Pipeline[i], id |-> IF Pipeline[i] \in KeyedOps THEN id ELSE NoID,
      ok |-> TRUE]]

SubmitSettled ==
  /\ pc = [p \in SubmitCalls |-> IF p \in Scenes THEN "done" ELSE "idle"]
  /\ req = [p \in SubmitCalls |-> IF p \in Scenes THEN UploadOf(OwnerOf(p)) ELSE NoRequest]
  /\ jobID = [p \in SubmitCalls |-> IF p \in Scenes THEN p ELSE NoID]
  /\ userDoc = [p \in SubmitCalls |-> IF p \in Scenes THEN {p} ELSE {}]
  /\ result = [p \in SubmitCalls |->
                 IF p \in Scenes THEN [id |-> p, err |-> nil] ELSE NoReturn]
  /\ log = [p \in SubmitCalls |-> IF p \in Scenes THEN CompleteLog(p) ELSE <<>>]
  /\ objectCounter = 2
  /\ videosFolder = TRUE
  /\ videoFiles = [f \in {VideoFilePath(j) : j \in Scenes} |-> "full"]
  /\ sceneVideos = [j \in Scenes |-> Video(j)]
  /\ sceneNames = [j \in Scenes |-> "scene"]
  /\ sceneConfigs = [j \in Scenes |-> TrainingConfig(UploadOf(OwnerOf(j)))]
  /\ queue = [j \in 1..2 |-> [id |-> j, video |-> Video(j),
                              config |-> TrainingConfig(UploadOf(OwnerOf(j)))]]
  /\ users = [u \in Users |-> {j \in Scenes : OwnerOf(j) = u}]

ArtifactPath(j, ot, it) == <<j, ot, it>>

Registry ==
  (1 :> ("rgb" :> [it \in {"100", "200"} |-> ArtifactPath(1, "rgb", it)]))
  @@ (2 :> ("depth" :> [it \in {"100"} |-> ArtifactPath(2, "depth", it)]))

MetaInit ==
  /\ SubmitSettled
  /\ nerfs = Registry
  /\ artifacts = <<>>
  /\ mpc = "idle"
  /\ mreq = NoMetaRequest
  /\ lookup = NoLookup
  /\ nerf = <<>>
  /\ config = NoConfig
  /\ otIdx = 0
  /\ pending = {}
  /\ resources = <<>>
  /\ mresult = NoMetaResult
  /\ mlog = <<>>
  /\ callsMade = 0
  /\ prev = NoPrev
  /\ steady = TRUE

MetaNext ==
  \/ CallVerifyUserAccess
  \/ CallGetNerf
  \/ CallGetTrainingConfig
  \/ RangeOutputTypes
  \/ CallStat
  \/ NextCall
  \/ RepeatCall
  \/ WorkerWrite

MetaSpec == MetaInit /\ [][MetaNext]_vars

Init == SubmitInit /\ MetaIdle

Next == SubmitStep

Spec == Init /\ [][Next]_vars

\* -------------------------------------------------------------------------
\* Properties of the submission pipeline (checked under Spec)
\* -------------------------------------------------------------------------
ErrorsOf(op) ==
  CASE op = "Validate"          -> {"ErrStat", "ErrFileNotReceived", "ErrImproperExtension"}
    [] op = "MkdirAll"          -> {"ErrMkdirAll"}
    [] op = "Create"            -> {"ErrCreate"}
    [] op = "Open"              -> {"ErrOpen"}
    [] op = "Copy"              -> {"ErrCopy"}
    [] op = "SetVideo"          -> {"ErrSetVideo"}
    [] op = "SetSceneName"      -> {"ErrSetSceneName"}
    [] op = "SetTrainingConfig" -> {"ErrSetTrainingConfig"}
    [] op = "PublishSfmJob"     -> {"ErrPublish"}
    [] op = "GetUserByID"       -> {"ErrGetUserByID"}
    [] op = "UpdateUser"        -> {"ErrUpdateUser"}
    [] OTHER                    -> {}

Succeeded(p) == pc[p] = "done" /\ result[p].err = nil
Failed(p)    == pc[p] = "done" /\ result[p].err # nil

\* C1: within one HandleIncomingVideo call the steps run in the order validate,
\* allocate id, store file (MkdirAll, Create, Open, Copy), SetVideo,
\* SetSceneName, SetTrainingConfig, publish, GetUserByID, UpdateUser; a step is
\* attempted only after every earlier step succeeded and at most once; the
\* first failing step is the last step attempted and its error is returned.
C1_StepsInOrderFailFast ==
  \A p \in SubmitCalls :
    LET l == log[p]
        n == Len(log[p])
    IN  /\ n <= Len(Pipeline)
        /\ \A i \in 1..n : l[i].op = Pipeline[i] /\ (i < n => l[i].ok)
        /\ (pc[p] # "done" /\ n > 0) => l[n].ok
        /\ Failed(p) => /\ n > 0
                        /\ ~l[n].ok
                        /\ result[p].id = NoID
                        /\ result[p].err \in ErrorsOf(l[n].op)
        /\ Succeeded(p) => n = Len(Pipeline) /\ l[n].ok

\* One call ran the whole pipeline, another stopped at a failed SetSceneName.
C1_Witness ==
  \E p, q \in SubmitCalls :
    /\ Succeeded(p)
    /\ Failed(q) /\ result[q].err = "ErrSetSceneName" /\ Len(log[q]) = 8

HasMp4Suffix(n) == Len(n) >= 4 /\ SubSeq(n, Len(n) - 3, Len(n)) = DotMp4
InvalidUpload(p) ==
  /\ pc[p] # "idle"
  /\ ~req[p].statErr
  /\ (req[p].name = <<>> \/ ~HasMp4Suffix(req[p].name))

\* C2: an upload whose reported file name is empty or does not end in exactly
\* ".mp4" is answered with a validation error and no job id, the call makes no
\* call besides the validation, and while only such uploads have arrived the
\* filesystem, the scene store, the queue and the user store are untouched.
C2_InvalidUploadRejectedNoWrites ==
  /\ \A p \in SubmitCalls :
       InvalidUpload(p) =>
         /\ pc[p] = "done"
         /\ result[p].id = NoID
         /\ result[p].err \in {"ErrFileNotReceived", "ErrImproperExtension"}
         /\ log[p] = <<[op |-> "Validate", id |-> NoID, ok |-> FALSE]>>
  /\ (\A p \in SubmitCalls : pc[p] = "idle" \/ InvalidUpload(p)) =>
         /\ ~videosFolder
         /\ videoFiles = <<>>
         /\ sceneVideos = <<>> /\ sceneNames = <<>> /\ sceneConfigs = <<>>
         /\ queue = <<>>
         /\ users = [u \in Users |-> {}]
         /\ objectCounter = 0

\* An upper-case extension and an empty name have both been rejected.
C2_Witness ==
  \E p, q \in SubmitCalls :
    /\ InvalidUpload(p) /\ req[p].name = UpperName
    /\ result[p].err = "ErrImproperExtension"
    /\ InvalidUpload(q) /\ req[q].name = EmptyName
    /\ result[q].err = "ErrFileNotReceived"

\* C3: a successful call returns an identifier no other call returns, and that
\* identifier is the stem of the video file the call created and copied and
\* the key of its SetVideo, SetSceneName, SetTrainingConfig and publish.
C3_JobIDUniqueAndUsedThroughout ==
  \A p \in SubmitCalls :
    Succeeded(p) =>
      /\ result[p].id # NoID
      /\ \A q \in SubmitCalls \ {p} : result[q].id # result[p].id
      /\ \A i \in 1..Len(log[p]) :
           log[p][i].op \in KeyedOps => log[p][i].id = result[p].id
      /\ \E f \in DOMAIN videoFiles : Stem(f) = result[p].id /\ f[3] = ".mp4"

\* Two calls have both returned a job id.
C3_Witness ==
  \E p, q \in SubmitCalls : p # q /\ Succeeded(p) /\ Succeeded(q)

QueuedFor(id) == {i \in 1..Len(queue) : queue[i].id = id}

Complete(p) ==
  LET id == jobID[p] IN
    /\ VideoFilePath(id) \in DOMAIN videoFiles
    /\ videoFiles[VideoFilePath(id)] = "full"
    /\ id \in DOMAIN sceneVideos /\ sceneVideos[id] = Video(id)
    /\ id \in DOMAIN sceneNames /\ sceneNames[id] = req[p].sceneName
    /\ id \in DOMAIN sceneConfigs /\ sceneConfigs[id] = TrainingConfig(req[p])
    /\ Cardinality(QueuedFor(id)) = 1
    /\ id \in users[req[p].user]

\* C4: at the step in which a call returns a job identifier, the video file
\* is stored, Video, scene name and TrainingConfig are persisted under the
\* identifier, exactly one queue message references it, and the submitting
\* user's persisted job set contains it.
C4_ReturnedJobComplete ==
  [][\A p \in SubmitCalls : (pc[p] = "return" /\ pc'[p] = "done") => Complete(p)']_vars

\* C8: a user's persisted job set only grows: no step removes an identifier
\* from it.
C8_UserJobSetOnlyGrows ==
  [][\A u \in Users : users[u] \subseteq users'[u]]_vars

IssuerOf(id) == CHOOSE p \in SubmitCalls : jobID[p] = id

\* C12: a job's Video and TrainingConfig are written at most once and never
\* overwritten: every SetVideo and SetTrainingConfig a call issues is keyed
\* by the call's own identifier and is the call's first of that kind, no
\* two calls share an identifier, a call about to issue one finds no record
\* under its identifier, and what is stored stays what the issuing call
\* wrote.
C12_VideoAndConfigWrittenOnce ==
  /\ \A p \in SubmitCalls : \A i \in 1..Len(log[p]) :
       log[p][i].op \in {"SetVideo", "SetTrainingConfig"} =>
         /\ log[p][i].id = jobID[p]
         /\ \A k \in 1..(i - 1) : log[p][k].op # log[p][i].op
  /\ \A p, q \in SubmitCalls :
       (p # q /\ jobID[p] # NoID) => jobID[p] # jobID[q]
  /\ \A p \in SubmitCalls :
       /\ pc[p] = "setvideo" => jobID[p] \notin DOMAIN sceneVideos
       /\ pc[p] \in {"setvideo", "setscenename", "settrainingconfig"}
            => jobID[p] \notin DOMAIN sceneConfigs
  /\ \A id \in DOMAIN sceneVideos : sceneVideos[id] = Video(id)
  /\ \A id \in DOMAIN sceneConfigs :
       sceneConfigs[id] = TrainingConfig(req[IssuerOf(id)])

\* Two jobs with different TrainingConfigs are stored while a third write is
\* still to come or both calls are over.
C12_Witness ==
  /\ DOMAIN sceneVideos = {1, 2}
  /\ DOMAIN sceneConfigs = {1, 2}
  /\ sceneConfigs[1] # sceneConfigs[2]

WroteUser(p) ==
  /\ Len(log[p]) = Len(Pipeline)
  /\ log[p][Len(Pipeline)].ok

\* C13: the user document is last-write-wins. A user's persisted job set is
\* empty or exactly the document some call of that user wrote (the set that
\* call had read plus its own identifier), so two interleaved submissions of
\* one user can both succeed while the set holds only one of their
\* identifiers (the state of C13_Witness).
C13_UserDocumentLastWriteWins ==
  \A u \in Users :
    \/ users[u] = {}
    \/ \E p \in SubmitCalls :
         /\ req[p].user = u
         /\ WroteUser(p)
         /\ users[u] = userDoc[p]
         /\ jobID[p] \in users[u]

\* Both submissions of one user returned their job ids and the persisted set
\* holds only one of them.
C13_Witness ==
  \E p, q \in SubmitCalls :
    /\ p # q /\ req[p].user = req[q].user
    /\ Succeeded(p) /\ Succeeded(q)
    /\ users[req[p].user] = {result[q].id}
    /\ result[p].id \notin users[req[p].user]

StoreErrors == {"ErrSetVideo", "ErrSetSceneName", "ErrSetTrainingConfig", "ErrPublish"}
FileFull(id) ==
  VideoFilePath(id) \in DOMAIN videoFiles /\ videoFiles[VideoFilePath(id)] = "full"
InAnyJobSet(id) == \E u \in Users : id \in users[u]

\* C14: no compensation. A call that failed at SetVideo, SetSceneName,
\* SetTrainingConfig or the publish has returned that error and no id; its
\* video file stays fully stored, every scene-store write that succeeded
\* before the failure stays in place, no message of it is queued, and it
\* touched no user document (no GetUserByID, no UpdateUser, id in no set).
C14_NoCompensation ==
  \A p \in SubmitCalls :
    (Failed(p) /\ result[p].err \in StoreErrors) =>
      LET id == jobID[p]
          e == result[p].err
      IN  /\ result[p].id = NoID
          /\ FileFull(id)
          /\ e # "ErrSetVideo"
               => id \in DOMAIN sceneVideos /\ sceneVideos[id] = Video(id)
          /\ e \in {"ErrSetTrainingConfig", "ErrPublish"}
               => id \in DOMAIN sceneNames /\ sceneNames[id] = req[p].sceneName
          /\ e = "ErrPublish"
               => id \in DOMAIN sceneConfigs /\ sceneConfigs[id] = TrainingConfig(req[p])
          /\ e = "ErrSetVideo" => id \notin DOMAIN sceneVideos
          /\ e \in {"ErrSetVideo", "ErrSetSceneName"} => id \notin DOMAIN sceneNames
          /\ e # "ErrPublish" => id \notin DOMAIN sceneConfigs
          /\ QueuedFor(id) = {}
          /\ ~InAnyJobSet(id)
          /\ \A i \in 1..Len(log[p]) : log[p][i].op \notin {"GetUserByID", "UpdateUser"}

\* One call failed at the publish and another at SetSceneName; both left
\* their file and earlier records behind.
C14_Witness ==
  \E p, q \in SubmitCalls :
    /\ Failed(p) /\ result[p].err = "ErrPublish"
    /\ FileFull(jobID[p]) /\ jobID[p] \in DOMAIN sceneConfigs
    /\ Failed(q) /\ result[q].err = "ErrSetSceneName"
    /\ FileFull(jobID[q]) /\ jobID[q] \in DOMAIN sceneVideos

OwnershipFailed(p) ==
  /\ pc[p] \in {"return", "done"}
  /\ Len(log[p]) > 0
  /\ log[p][Len(log[p])].op \in {"GetUserByID", "UpdateUser"}
  /\ ~log[p][Len(log[p])].ok

\* C15: when GetUserByID or UpdateUser fails the call returns that error
\* and no job identifier, while the job stays stored (file, Video, scene
\* name, TrainingConfig) with its one queue message published, and the job
\* is in no user's persisted job set.
C15_OwnershipFailureOrphansJob ==
  \A p \in SubmitCalls :
    OwnershipFailed(p) =>
      LET id == jobID[p] IN
        /\ pc[p] = "done"
        /\ result[p].id = NoID
        /\ result[p].err \in {"ErrGetUserByID", "ErrUpdateUser"}
        /\ FileFull(id)
        /\ id \in DOMAIN sceneVideos /\ id \in DOMAIN sceneNames
        /\ id \in DOMAIN sceneConfigs
        /\ Cardinality(QueuedFor(id)) = 1
        /\ ~InAnyJobSet(id)

\* UpdateUser failed: the job is queued for processing and belongs to no
\* user.
C15_Witness ==
  \E p \in SubmitCalls :
    /\ Failed(p) /\ result[p].err = "ErrUpdateUser"
    /\ QueuedFor(jobID[p]) # {}
    /\ ~InAnyJobSet(jobID[p])

\* C16: a queue message for job j is published only after the video file
\* of j was fully copied and the Video, the scene name and the
\* TrainingConfig of j were persisted; the message carries them.
C16_PublishedOnlyAfterWrites ==
  \A i \in 1..Len(queue) :
    LET id == queue[i].id IN
      /\ FileFull(id)
      /\ id \in DOMAIN sceneVideos /\ sceneVideos[id] = queue[i].video
      /\ id \in DOMAIN sceneNames
      /\ id \in DOMAIN sceneConfigs /\ sceneConfigs[id] = queue[i].config

\* Two messages are queued while one of the publishing calls has still to
\* attribute ownership.
C16_Witness ==
  /\ Len(queue) = 2
  /\ \E p \in SubmitCalls : pc[p] = "getuser"

\* C20: every identifier in a user's persisted job set has its Video, scene
\* name and TrainingConfig persisted and its queue message published (and
\* its video file stored): ownership is recorded only after every earlier
\* step of the pipeline succeeded.
C20_OwnedJobsAreComplete ==
  \A u \in Users : \A id \in users[u] :
    /\ FileFull(id)
    /\ id \in DOMAIN sceneVideos
    /\ id \in DOMAIN sceneNames
    /\ id \in DOMAIN sceneConfigs
    /\ Cardinality(QueuedFor(id)) = 1
    /\ WroteUser(IssuerOf(id))

\* Both users own a job.
C20_Witness ==
  \A u \in Users : users[u] # {}

\* -------------------------------------------------------------------------
\* Properties of GetNerfMetadata (checked under MetaSpec)
\* -------------------------------------------------------------------------
Started == mpc # "idle"
OnlyLookup == mlog = <<Access("UserHasJobAccess", NoPath, StatError)>>
\* The user store does not list the scene for the caller.
Unauthorized == Started /\ mreq.scene \notin users[mreq.user]
\* The lookup failed or answered false.
Refused == Started /\ (lookup.err # nil \/ ~lookup.authorized)
PastGuard ==
  \/ mpc \in {"getnerf", "getconfig", "range", "stat"}
  \/ mpc = "done" /\ Len(mlog) > 1
  \/ mpc = "done" /\ mresult.err = nil

\* C5 (as stated): a call by a user who is not authorized for the job returns
\* AccessDenied, and its only store or filesystem access is the lookup.
C5_UnauthorizedGetsAccessDenied ==
  Unauthorized =>
    /\ mpc = "done"
    /\ mresult.err = "ErrUserNoAccess"
    /\ OnlyLookup

\* C5 (amended): a call by a user who is not authorized for the job returns
\* an error and no metadata, AccessDenied when the lookup answered and the
\* lookup's own error when it failed, and its only store or filesystem
\* access is the lookup: no GetNerf, no GetTrainingConfig, no Stat.
C5_UnauthorizedRefusedNoReads ==
  Unauthorized =>
    /\ mpc = "done"
    /\ mresult.meta = NoMeta
    /\ mresult.err = (IF lookup.err = nil THEN "ErrUserNoAccess" ELSE lookup.err)
    /\ OnlyLookup

\* An unauthorized caller whose lookup answered has been turned away.
C5_Witness ==
  /\ Unauthorized /\ lookup.err = nil
  /\ mpc = "done" /\ mresult.err = "ErrUserNoAccess"

\* C6: the guard is fail-closed. A call gets past verifyUserAccess only when
\* the lookup completed without error and answered true (the store lists the
\* scene for the user); after a lookup error or a false answer the call ends
\* with an error, no metadata, and no access besides the lookup.
C6_GuardFailClosed ==
  /\ PastGuard => /\ lookup.err = nil
                  /\ lookup.authorized
                  /\ mreq.scene \in users[mreq.user]
  /\ Refused => /\ mpc = "done"
                /\ mresult.err # nil
                /\ mresult.meta = NoMeta
                /\ OnlyLookup

\* The lookup failed for a user the store does list, and the call was refused.
C6_Witness ==
  /\ Started /\ mreq.scene \in users[mreq.user]
  /\ lookup.err = "ErrLookup"
  /\ mpc = "done" /\ OnlyLookup /\ mresult.meta = NoMeta

\* C7 (as stated): a failed lookup and a "not authorized" answer both end in
\* AccessDenied.
C7_RefusalIsAlwaysAccessDenied ==
  (Refused /\ mpc = "done") => mresult.err = "ErrUserNoAccess"

\* C7 (amended): a failed lookup and a "not authorized" answer both end in an
\* error, but not the same one: the lookup's own error is returned unchanged,
\* and only the "not authorized" answer gives AccessDenied.
C7_RefusalErrorByCause ==
  Refused =>
    /\ mpc = "done"
    /\ mresult.err # nil
    /\ lookup.err # nil => mresult.err = lookup.err /\ mresult.err # "ErrUserNoAccess"
    /\ lookup.err = nil => mresult.err = "ErrUserNoAccess"

\* An unauthorized caller's lookup failed, and the lookup's error came back.
C7_Witness ==
  /\ Unauthorized
  /\ lookup.err = "ErrLookup"
  /\ mpc = "done" /\ mresult.err = "ErrLookup"

Stats == {i \in 1..Len(mlog) : mlog[i].op = "Stat"}
InfoAt(path) == resources[path[2]][path[3]]
\* ceil(N / ChunkSize), from its definition
Ceil(N) == CHOOSE c \in 0..(MaxChunks + 2) : (c - 1) * ChunkSize < N /\ N <= c * ChunkSize

\* C9: for an artifact file found with size N > 0 the ResourceInfo has
\* exists = true, size = N, chunks = ceil(N / 1,048,576), and lastChunkSize =
\* 1,048,576 when N is a multiple of it, N mod 1,048,576 otherwise; so
\* 2,097,152 bytes give 2 chunks and a last chunk of 1,048,576, and 1,500,000
\* bytes give 2 chunks and a last chunk of 451,424. The returned metadata
\* carries these ResourceInfos.
C9_ChunkArithmetic ==
  /\ \A i \in Stats :
       mlog[i].seen > 0 =>
         LET N == mlog[i].seen
             info == InfoAt(mlog[i].path)
         IN  /\ info.Exists
             /\ info.Size = N
             /\ info.Chunks = Ceil(N)
             /\ info.LastChunkSize =
                  (IF N % 1048576 = 0 THEN 1048576 ELSE N % 1048576)
             /\ N = 2097152 => info.Chunks = 2 /\ info.LastChunkSize = 1048576
             /\ N = 1500000 => info.Chunks = 2 /\ info.LastChunkSize = 451424
  /\ (mpc = "done" /\ mresult.err = nil) => mresult.meta.Resources = resources

\* A call returned metadata with a file of 1,500,000 bytes and one of
\* 2,097,152 bytes.
C9_Witness ==
  /\ mpc = "done" /\ mresult.err = nil
  /\ \E i, k \in Stats : mlog[i].seen = 1500000 /\ mlog[k].seen = 2097152

NoFileInfo == [Exists |-> FALSE, Size |-> 0, Chunks |-> 0, LastChunkSize |-> 0]
PathOf(ot, it) == GetFilePathsForOutputType(nerf, ot)[it]

\* C10: for a registered artifact whose path is absent or unreadable the
\* ResourceInfo is exists = false with size, chunks and lastChunkSize zero,
\* under every output-type filter; files are never removed, so an artifact
\* still absent now was absent when probed.
C10_MissingArtifact ==
  /\ \A i \in Stats :
       mlog[i].seen = StatError => InfoAt(mlog[i].path) = NoFileInfo
  /\ \A ot \in DOMAIN resources : \A it \in DOMAIN resources[ot] :
       PathOf(ot, it) \notin DOMAIN artifacts => resources[ot][it] = NoFileInfo

\* Under the filter "rgb" a call returned one artifact as missing and one as
\* present.
C10_Witness ==
  /\ mpc = "done" /\ mresult.err = nil /\ mreq.outputType = "rgb"
  /\ \E i, k \in Stats :
       /\ mlog[i].seen = StatError
       /\ mlog[i].path \notin DOMAIN artifacts
       /\ mresult.meta.Resources["rgb"][mlog[i].path[3]] = NoFileInfo
       /\ mlog[k].seen > 0

\* C17: for an existing artifact file of 0 bytes the ResourceInfo is
\* exists = true, size = 0, chunks = 0 and lastChunkSize = 1,048,576, and
\* the returned metadata carries it.
C17_ZeroByteArtifact ==
  /\ \A i \in Stats :
       mlog[i].seen = 0 =>
         InfoAt(mlog[i].path) =
           [Exists |-> TRUE, Size |-> 0, Chunks |-> 0, LastChunkSize |-> 1048576]
  /\ \A ot \in DOMAIN resources : \A it \in DOMAIN resources[ot] :
       LET info == resources[ot][it] IN
         (info.Exists /\ info.Size = 0) => info.Chunks = 0 /\ info.LastChunkSize = 1048576

\* A call returned the metadata of an empty artifact file.
C17_Witness ==
  /\ mpc = "done" /\ mresult.err = nil
  /\ \E i \in Stats :
       /\ mlog[i].seen = 0
       /\ mlog[i].path \in DOMAIN artifacts /\ artifacts[mlog[i].path] = 0
       /\ LET info == mresult.meta.Resources[mlog[i].path[2]][mlog[i].path[3]]
          IN  info.Exists /\ info.Chunks = 0

DeclaredTypes(j) ==
  {sceneConfigs[j].OutputTypes[i] : i \in 1..Len(sceneConfigs[j].OutputTypes)}
Returned == mpc = "done" /\ mresult.err = nil

\* C18: a call that returns metadata was made by an authorized caller; the
\* keys of its result are the output types the job's TrainingConfig declares
\* when the filter is empty, and the declared types equal to the filter
\* otherwise; under each key the iteration labels are those the registry
\* holds for that type. Once the TrainingConfig is fetched no error can
\* arise, so a filter naming an undeclared type gives an empty mapping and
\* no error.
C18_KeysAreDeclaredAndFiltered ==
  /\ Returned =>
       LET j == mreq.scene
           res == mresult.meta.Resources
       IN  /\ j \in users[mreq.user]
           /\ mreq.outputType = "" => DOMAIN res = DeclaredTypes(j)
           /\ mreq.outputType # "" => DOMAIN res = DeclaredTypes(j) \cap {mreq.outputType}
           /\ \A ot \in DOMAIN res :
                DOMAIN res[ot] = DOMAIN GetFilePathsForOutputType(nerfs[j], ot)
           /\ mreq.outputType \notin DeclaredTypes(j) \cup {""} => res = <<>>
  /\ (mpc = "done" /\ config # NoConfig) => mresult.err = nil

\* The owner of scene 1, which declares only rgb, asked for depth and got an
\* empty mapping without error.
C18_Witness ==
  /\ Returned
  /\ mreq.scene = 1 /\ mreq.outputType = "depth"
  /\ "depth" \notin DeclaredTypes(1)
  /\ mresult.meta.Resources = <<>>

\* C19: every ResourceInfo with exists = true and size N > 0 has
\* 1 <= lastChunkSize <= 1,048,576 and
\* (chunks - 1) * 1,048,576 + lastChunkSize = N.
C19_ChunksCoverFile ==
  \A ot \in DOMAIN resources : \A it \in DOMAIN resources[ot] :
    LET info == resources[ot][it] IN
      (info.Exists /\ info.Size > 0) =>
        /\ 1 <= info.LastChunkSize
        /\ info.LastChunkSize <= 1048576
        /\ (info.Chunks - 1) * 1048576 + info.LastChunkSize = info.Size

\* A call returned a file of one full chunk and a file of one chunk and one
\* byte.
C19_Witness ==
  /\ Returned
  /\ \E ot \in DOMAIN mresult.meta.Resources :
       \E a, b \in DOMAIN mresult.meta.Resources[ot] :
         /\ mresult.meta.Resources[ot][a].Exists
         /\ mresult.meta.Resources[ot][a].Size = 1048576
         /\ mresult.meta.Resources[ot][b].Exists
         /\ mresult.meta.Resources[ot][b].Size = 1048577

Repeated == mpc = "done" /\ steady /\ prev # NoPrev /\ prev.req = mreq

====
